---- MODULE Spec2Model ----
(***************************************************************************)
(* stress-ng tsearch stressor (src/stress-tsearch.c): the key generator,   *)
(* the populate / find / delete loop of stress_tsearch() and the ordered   *)
(* tree it drives through tsearch(), tfind() and tdelete().                *)
(*                                                                         *)
(* The three tree routines and the comparison function are called by the   *)
(* source but not defined in it; they are modelled from section 4.2 of the *)
(* specification (an unbalanced binary search tree whose nodes hold        *)
(* references to key buffer elements).  keep_stressing() is modelled from  *)
(* the specification's continuation predicate.                             *)
(***************************************************************************)
EXTENDS Integers, Naturals, Sequences, FiniteSets, TLC

(***************************************************************************)
(* Program constants                                                       *)
(***************************************************************************)
TSEARCH_SIZE_SHIFT == 22
MIN_TSEARCH_SIZE == 1024
MAX_TSEARCH_SIZE == 2 ^ TSEARCH_SIZE_SHIFT
DEFAULT_TSEARCH_SIZE == 65536
\* stress_mwc16() & 0xfff keeps the low 12 bits
MaskBits == 12
\* width of int and of int32_t
Int32Bits == 32
\* width of size_t
SizeBits == 64

(***************************************************************************)
(* Bounds of the model                                                     *)
(***************************************************************************)
\* largest element count n of the loop model (the program's is >= 1024)
MaxN == 3
\* largest number of cycles the continuation predicate permits
MaxOps == 2

\* the continuation predicate of a run with no limit on its cycles
NoLimit == -1
\* largest number of keys in the runs with no limit on the cycles
LiveN == 2
\* the model stops counting cycles and random values here; a run with a
\* limit on its cycles stays below both
CounterCap == MaxOps + 1
DrawCap == MaxN * (MaxOps + 1)

\* values the 16-bit random source returns: 0x400 loses its set bit to the
\* truncation to 32 bits, 0x200 sets the sign bit of the key, 0xf001 equals
\* 1 after the mask
RandVals == {0, 512, 1024, 61441}

(***************************************************************************)
(* Machine integers as sets of bit positions                               *)
(***************************************************************************)
BitsOf(x) == {b \in 0..30 : (x \div (2 ^ b)) % 2 = 1}

RECURSIVE SumPow(_)
SumPow(S) ==
    IF S = {} THEN 0
    ELSE LET b == CHOOSE x \in S : TRUE IN (2 ^ b) + SumPow(S \ {b})

\* value of a 32-bit two's complement word
Int32Value(S) ==
    LET low == SumPow(S \cap (0..(Int32Bits - 2)))
    IN IF (Int32Bits - 1) \in S THEN (low - 2 ^ 30) - 2 ^ 30 ELSE low

\* conversion of an int to size_t
SignExtend(S) ==
    IF (Int32Bits - 1) \in S THEN S \cup (Int32Bits..(SizeBits - 1)) ELSE S

BitXor(A, B) == (A \ B) \cup (B \ A)

(***************************************************************************)
(* Key generator, line 90:                                                 *)
(*   data[i] = (int32_t)(((stress_mwc16() & 0xfff) << SHIFT) ^ i)          *)
(* The shift is done in int; when its result does not fit the behaviour is *)
(* undefined: a build either wraps it to 32 bits (wide = FALSE) or keeps   *)
(* the unwrapped value in a 64-bit register (wide = TRUE).                 *)
(***************************************************************************)
StressKeyShift12(r, idx, wide) ==
    LET masked == BitsOf(r) \cap (0..(MaskBits - 1))
        full == {b + MaskBits : b \in masked}
        shifted == IF wide THEN full
                   ELSE SignExtend(full \cap (0..(Int32Bits - 1)))
    IN Int32Value(BitXor(shifted, BitsOf(idx)) \cap (0..(Int32Bits - 1)))

StressKey(r, idx, wide) ==
    LET masked == BitsOf(r) \cap (0..(MaskBits - 1))
        full == {b + TSEARCH_SIZE_SHIFT : b \in masked}
        shifted == IF wide THEN full
                   ELSE SignExtend(full \cap (0..(Int32Bits - 1)))
    IN Int32Value(BitXor(shifted, BitsOf(idx)) \cap (0..(Int32Bits - 1)))

(***************************************************************************)
(* Ordering function on int32 values                                       *)
(***************************************************************************)
stress_sort_cmp_int32(a, b) == IF a < b THEN -1 ELSE IF a > b THEN 1 ELSE 0

(***************************************************************************)
(* Ordered tree.  A node holds the index of the key buffer element it      *)
(* references (never a copy of the key) and its two subtrees; keys are     *)
(* compared through the buffer d.                                          *)
(***************************************************************************)
Nil == [nil |-> TRUE]
Node(k, l, r) == [key |-> k, left |-> l, right |-> r]

RECURSIVE Size(_)
Size(t) == IF t = Nil THEN 0 ELSE 1 + Size(t.left) + Size(t.right)

\* buffer indices referenced by the nodes, in in-order
RECURSIVE InOrder(_)
InOrder(t) ==
    IF t = Nil THEN <<>>
    ELSE InOrder(t.left) \o <<t.key>> \o InOrder(t.right)

Refs(t) == {InOrder(t)[p] : p \in 1..Len(InOrder(t))}

\* find: the subtree rooted at the matching node, or Nil
RECURSIVE TreeFind(_, _, _)
TreeFind(t, k, d) ==
    IF t = Nil THEN Nil
    ELSE LET c == stress_sort_cmp_int32(d[k], d[t.key])
         IN IF c = 0 THEN t
            ELSE IF c < 0 THEN TreeFind(t.left, k, d)
            ELSE TreeFind(t.right, k, d)

\* insert, given that a node can be allocated
RECURSIVE TreeInsertAlways(_, _, _)
TreeInsertAlways(t, k, d) ==
    IF t = Nil THEN Node(k, Nil, Nil)
    ELSE LET c == stress_sort_cmp_int32(d[k], d[t.key])
         IN IF c < 0 THEN [t EXCEPT !.left = TreeInsertAlways(t.left, k, d)]
            ELSE [t EXCEPT !.right = TreeInsertAlways(t.right, k, d)]

RECURSIVE TreeInsert(_, _, _)
TreeInsert(t, k, d) ==
    IF t = Nil THEN Node(k, Nil, Nil)
    ELSE LET c == stress_sort_cmp_int32(d[k], d[t.key])
         IN IF c = 0 THEN t
            ELSE IF c < 0 THEN [t EXCEPT !.left = TreeInsert(t.left, k, d)]
            ELSE [t EXCEPT !.right = TreeInsert(t.right, k, d)]

\* leftmost node of a non-empty tree
RECURSIVE TreeMin(_)
TreeMin(t) == IF t.left = Nil THEN t ELSE TreeMin(t.left)

\* a two-children delete that promotes the successor but drops the
\* successor's own right subtree
RECURSIVE TreeDeleteOrphan(_, _, _)
TreeDeleteOrphan(t, k, d) ==
    IF t = Nil THEN Nil
    ELSE LET c == stress_sort_cmp_int32(d[k], d[t.key])
         IN IF c < 0 THEN [t EXCEPT !.left = TreeDeleteOrphan(t.left, k, d)]
            ELSE IF c > 0
                 THEN [t EXCEPT !.right = TreeDeleteOrphan(t.right, k, d)]
            ELSE IF t.left = Nil THEN t.right
            ELSE IF t.right = Nil THEN t.left
            ELSE LET s == TreeMin(t.right)
                 IN Node(s.key, t.left,
                         IF t.right.left = Nil THEN Nil
                         ELSE TreeDeleteOrphan(t.right, s.key, d))

RECURSIVE TreeDelete(_, _, _)
TreeDelete(t, k, d) ==
    IF t = Nil THEN Nil
    ELSE LET c == stress_sort_cmp_int32(d[k], d[t.key])
         IN IF c < 0 THEN [t EXCEPT !.left = TreeDelete(t.left, k, d)]
            ELSE IF c > 0 THEN [t EXCEPT !.right = TreeDelete(t.right, k, d)]
            ELSE IF t.left = Nil THEN t.right
            ELSE IF t.right = Nil THEN t.left
            ELSE LET s == TreeMin(t.right)
                 IN Node(s.key, t.left, TreeDelete(t.right, s.key, d))

\* every node's left subtree holds smaller keys, its right subtree greater
RECURSIVE IsBST(_, _)
IsBST(t, d) ==
    \/ t = Nil
    \/ /\ \A l \in Refs(t.left) : stress_sort_cmp_int32(d[l], d[t.key]) < 0
       /\ \A r \in Refs(t.right) : stress_sort_cmp_int32(d[r], d[t.key]) > 0
       /\ IsBST(t.left, d)
       /\ IsBST(t.right, d)

\* key values of the nodes, in in-order
KeySeq(t, d) == [p \in 1..Len(InOrder(t)) |-> d[InOrder(t)[p]]]
KeySet(t, d) == {d[k] : k \in Refs(t)}
StrictlyIncreasing(s) == \A p \in 1..(Len(s) - 1) : s[p] < s[p + 1]

(***************************************************************************)
(* State of one run of stress_tsearch()                                    *)
(***************************************************************************)
VARIABLES
    pc,                     \* position in stress_tsearch()
    n,                      \* element count (tsearch_size)
    data,                   \* the key buffer
    root,                   \* the tree of the current cycle
    prev_root,              \* the tree before the last tree operation
    i,                      \* index of the populate, find and delete loops
    j,                      \* index of the clean-up loop
    counter,                \* the bogo-op counter inc_counter() advances
    g_keep_stressing_flag,  \* cleared by the cancellation signal
    verify,                 \* g_opt_flags & OPT_FLAGS_VERIFY
    max_ops,                \* cycles the continuation predicate permits
    proc_state,             \* state given to stress_set_proc_state()
    buffer,                 \* "none", "allocated" or "freed"
    rc,                     \* value returned by stress_tsearch()
    reports,                \* kinds of message given to pr_fail() and pr_err()
    res,                    \* the last tree operation: the element given, whether a
                            \* node was returned, the element that node references
                            \* and its value
    live,                   \* tree nodes allocated and not yet freed
    nomem,                  \* the failed insert: its index and the counter then
    nfind,                  \* lookups made in the lookup phase of this cycle
    msg,                    \* messages of the step that made the last tree call
    ndraw,                  \* values taken from the random source, up to DrawCap
    cancelled_at            \* position and loop index at which the signal arrived

vars == <<pc, n, data, root, prev_root, i, j, counter, g_keep_stressing_flag,
          verify, max_ops, proc_state, buffer, rc, reports, res, live,
          nomem, nfind, msg, ndraw, cancelled_at>>

\* a message is its text and the element it names
Kinds(messages) == {m[1] : m \in messages}

NoFail == [idx |-> -1, counter |-> 0]

NoRes == [op |-> "none", idx |-> 0, found |-> FALSE, node |-> -1, val |-> 0]

\* the settings and the environment of a run, before the first statement
Setup ==
    /\ root = Nil
    /\ prev_root = Nil
    /\ i = 0
    /\ j = 0
    /\ counter = 0
    /\ g_keep_stressing_flag = TRUE
    /\ verify \in BOOLEAN
    /\ proc_state = "init"
    /\ rc = "none"
    /\ reports = {}
    /\ res = NoRes
    /\ live = 0
    /\ nomem = NoFail
    /\ nfind = 0
    /\ msg = {}
    /\ ndraw = 0
    /\ cancelled_at = <<"never", 0>>

Init ==
    /\ Setup
    /\ pc = "start"
    /\ n \in 1..MaxN
    /\ max_ops \in 0..MaxOps
    /\ data = <<>>
    /\ buffer = "none"

(***************************************************************************)
(* The three tree calls of the source, on the tree root over buffer d      *)
(***************************************************************************)
\* tsearch(&d[k], &root, cmp) when a node can be allocated
tsearch_ok(k, d) ==
    /\ prev_root' = root
    /\ root' = TreeInsert(root, k, d)
    /\ live' = live + (Size(TreeInsert(root, k, d)) - Size(root))
    /\ res' = [op |-> "tsearch", idx |-> k, found |-> TRUE,
               node |-> TreeFind(TreeInsert(root, k, d), k, d).key,
               val |-> d[TreeFind(TreeInsert(root, k, d), k, d).key]]

\* tsearch() returning NULL: a new node is needed and cannot be allocated
tsearch_nomem(k, d) ==
    /\ TreeFind(root, k, d) = Nil
    /\ prev_root' = root
    /\ root' = root
    /\ live' = live
    /\ res' = [op |-> "tsearch", idx |-> k, found |-> FALSE, node |-> -1,
               val |-> 0]

\* tfind(&d[k], &root, cmp)
tfind(k, d) ==
    LET node == TreeFind(root, k, d)
    IN /\ prev_root' = root
       /\ root' = root
       /\ live' = live
       /\ res' = [op |-> "tfind", idx |-> k, found |-> node # Nil,
                  node |-> IF node # Nil THEN node.key ELSE -1,
                  val |-> IF node # Nil THEN d[node.key] ELSE 0]

\* tdelete(&d[k], &root, cmp)
tdelete(k, d) ==
    LET node == TreeFind(root, k, d)
    IN /\ prev_root' = root
       /\ root' = TreeDelete(root, k, d)
       /\ live' = IF node # Nil THEN live - 1 ELSE live
       /\ res' = [op |-> "tdelete", idx |-> k, found |-> node # Nil,
                  node |-> IF node # Nil THEN node.key ELSE -1,
                  val |-> IF node # Nil THEN d[node.key] ELSE 0]

(***************************************************************************)
(* stress_tsearch()                                                        *)
(***************************************************************************)
\* lines 78-83 with the run state set before the buffer is allocated
CallocFailAfterRun ==
    /\ pc = "start"
    /\ proc_state' = "run"
    /\ reports' = reports \cup {"calloc failed"}
    /\ rc' = "EXIT_NO_RESOURCE"
    /\ pc' = "done"
    /\ UNCHANGED <<n, data, root, prev_root, i, j, counter,
                   g_keep_stressing_flag, verify, max_ops, buffer, res, live,
                   nomem, nfind, msg, ndraw, cancelled_at>>

\* lines 78-81: calloc() fails
CallocFail ==
    /\ pc = "start"
    /\ reports' = reports \cup {"calloc failed"}
    /\ rc' = "EXIT_NO_RESOURCE"
    /\ pc' = "done"
    /\ UNCHANGED <<n, data, root, prev_root, i, j, counter,
                   g_keep_stressing_flag, verify, max_ops, proc_state, buffer,
                   res, live, nomem, cancelled_at>>
    /\ UNCHANGED <<nfind, msg, ndraw>>

\* lines 78-86: calloc() succeeds, the loop is entered
CallocOk ==
    /\ pc = "start"
    /\ data' = [k \in 0..(n - 1) |-> 0]
    /\ buffer' = "allocated"
    /\ proc_state' = "run"
    /\ root' = Nil
    /\ i' = 0
    /\ pc' = "populate"
    /\ UNCHANGED <<n, prev_root, j, counter, g_keep_stressing_flag, verify,
                   max_ops, rc, reports, res, live, nomem, cancelled_at>>
    /\ UNCHANGED <<nfind, msg, ndraw>>

PopulateCond == i < n

\* lines 89-91 with the two statements in the other order: the element is
\* inserted and its key is generated afterwards
PopulateStepStale ==
    /\ pc = "populate"
    /\ PopulateCond
    /\ \E r \in RandVals, wide \in BOOLEAN :
          /\ data' = [data EXCEPT ![i] = StressKey(r, i, wide)]
          /\ tsearch_ok(i, data)
    /\ i' = i + 1
    /\ UNCHANGED <<pc, n, j, counter, g_keep_stressing_flag, verify, max_ops,
                   proc_state, buffer, rc, reports, nomem, cancelled_at>>
    /\ msg' = {}
    /\ ndraw' = IF ndraw < DrawCap THEN ndraw + 1 ELSE ndraw
    /\ UNCHANGED nfind

\* lines 89-91 with the keys generated in the first cycle only
PopulateStepOnce ==
    /\ pc = "populate"
    /\ PopulateCond
    /\ \/ /\ counter = 0
          /\ \E r \in RandVals, wide \in BOOLEAN :
                /\ data' = [data EXCEPT ![i] = StressKey(r, i, wide)]
                /\ tsearch_ok(i, data')
          /\ ndraw' = IF ndraw < DrawCap THEN ndraw + 1 ELSE ndraw
       \/ /\ counter > 0
          /\ data' = data
          /\ tsearch_ok(i, data)
          /\ ndraw' = ndraw
    /\ i' = i + 1
    /\ msg' = {}
    /\ UNCHANGED <<pc, n, j, counter, g_keep_stressing_flag, verify, max_ops,
                   proc_state, buffer, rc, reports, nomem, nfind, cancelled_at>>

\* lines 89-91: key i is generated and inserted
PopulateStep ==
    /\ pc = "populate"
    /\ PopulateCond
    /\ \E r \in RandVals, wide \in BOOLEAN :
          /\ data' = [data EXCEPT ![i] = StressKey(r, i, wide)]
          /\ tsearch_ok(i, data')
    /\ i' = i + 1
    /\ UNCHANGED <<pc, n, j, counter, g_keep_stressing_flag, verify, max_ops,
                   proc_state, buffer, rc, reports, nomem, cancelled_at>>
    /\ msg' = {}
    /\ ndraw' = IF ndraw < DrawCap THEN ndraw + 1 ELSE ndraw
    /\ UNCHANGED nfind

\* lines 89-95: key i is generated, its insert cannot allocate a node
PopulateNoMem ==
    /\ pc = "populate"
    /\ PopulateCond
    /\ \E r \in RandVals, wide \in BOOLEAN :
          /\ data' = [data EXCEPT ![i] = StressKey(r, i, wide)]
          /\ tsearch_nomem(i, data')
    /\ reports' = reports \cup {"cannot allocate new tree node"}
    /\ nomem' = [idx |-> i, counter |-> counter]
    /\ j' = 0
    /\ pc' = "cleanup"
    /\ UNCHANGED <<n, i, counter, g_keep_stressing_flag, verify, max_ops,
                   proc_state, buffer, rc, cancelled_at>>
    /\ msg' = {<<"cannot allocate new tree node", i>>}
    /\ ndraw' = IF ndraw < DrawCap THEN ndraw + 1 ELSE ndraw
    /\ UNCHANGED nfind

\* line 89 false, line 102 reached
PopulateExit ==
    /\ pc = "populate"
    /\ ~PopulateCond
    /\ i' = 0
    /\ pc' = "find"
    /\ UNCHANGED <<n, data, root, prev_root, j, counter, g_keep_stressing_flag,
                   verify, max_ops, proc_state, buffer, rc, reports, res, live,
                   nomem, cancelled_at>>
    /\ nfind' = 0
    /\ UNCHANGED <<msg, ndraw>>

CleanupCondShort == j < i - 1

CleanupCond == j < i

\* lines 96-97
CleanupStep ==
    /\ pc = "cleanup"
    /\ CleanupCond
    /\ tdelete(j, data)
    /\ j' = j + 1
    /\ UNCHANGED <<pc, n, data, i, counter, g_keep_stressing_flag, verify,
                   max_ops, proc_state, buffer, rc, reports, nomem,
                   cancelled_at>>
    /\ msg' = {}
    /\ UNCHANGED <<nfind, ndraw>>

\* line 98
CleanupExit ==
    /\ pc = "cleanup"
    /\ ~CleanupCond
    /\ pc' = "abort"
    /\ UNCHANGED <<n, data, root, prev_root, i, j, counter,
                   g_keep_stressing_flag, verify, max_ops, proc_state, buffer,
                   rc, reports, res, live, nomem, cancelled_at>>
    /\ UNCHANGED <<nfind, msg, ndraw>>

FindCond == g_keep_stressing_flag /\ i < n

\* the messages of lines 105-119 without the test of OPT_FLAGS_VERIFY
FindReportsAlways(f, k) ==
    IF ~f.found THEN {<<"find: could not be found", k>>}
    ELSE IF f.val # data[k] THEN {<<"find: found X, expecting Y", k>>}
    ELSE {}

\* messages of lines 105-119 for the result f of the find of element k
FindReports(f, k) ==
    IF ~verify THEN {}
    ELSE IF ~f.found THEN {<<"find: could not be found", k>>}
    ELSE IF f.val # data[k] THEN {<<"find: found X, expecting Y", k>>}
    ELSE {}

\* lines 102-119 with tdelete() called in place of tfind()
FindStepDelete ==
    /\ pc = "find"
    /\ FindCond
    /\ tdelete(i, data)
    /\ reports' = reports \cup Kinds(FindReports(res', i))
    /\ i' = i + 1
    /\ msg' = FindReports(res', i)
    /\ nfind' = nfind + 1
    /\ UNCHANGED <<pc, n, data, j, counter, g_keep_stressing_flag, verify,
                   max_ops, proc_state, buffer, rc, nomem, ndraw, cancelled_at>>

\* lines 102-119
FindStep ==
    /\ pc = "find"
    /\ FindCond
    /\ tfind(i, data)
    /\ reports' = reports \cup Kinds(FindReports(res', i))
    /\ i' = i + 1
    /\ UNCHANGED <<pc, n, data, j, counter, g_keep_stressing_flag, verify,
                   max_ops, proc_state, buffer, rc, nomem, cancelled_at>>
    /\ msg' = FindReports(res', i)
    /\ nfind' = nfind + 1
    /\ UNCHANGED ndraw

\* line 102 false, line 122 reached
FindExit ==
    /\ pc = "find"
    /\ ~FindCond
    /\ i' = 0
    /\ pc' = "delete"
    /\ UNCHANGED <<n, data, root, prev_root, j, counter, g_keep_stressing_flag,
                   verify, max_ops, proc_state, buffer, rc, reports, res, live,
                   nomem, cancelled_at>>
    /\ UNCHANGED <<nfind, msg, ndraw>>

\* message of lines 125-128 for the result f of the delete of element k
DeleteReports(f, k) ==
    IF verify /\ ~f.found THEN {<<"delete: could not be found", k>>} ELSE {}

DeleteCondShort == i < n - 1

DeleteCondFlag == g_keep_stressing_flag /\ i < n

DeleteCond == i < n

\* lines 122-128
DeleteStep ==
    /\ pc = "delete"
    /\ DeleteCond
    /\ tdelete(i, data)
    /\ reports' = reports \cup Kinds(DeleteReports(res', i))
    /\ i' = i + 1
    /\ UNCHANGED <<pc, n, data, j, counter, g_keep_stressing_flag, verify,
                   max_ops, proc_state, buffer, rc, nomem, cancelled_at>>
    /\ msg' = DeleteReports(res', i)
    /\ UNCHANGED <<nfind, ndraw>>

\* line 122 false, line 130 reached
DeleteExit ==
    /\ pc = "delete"
    /\ ~DeleteCond
    /\ pc' = "inc_counter"
    /\ UNCHANGED <<n, data, root, prev_root, i, j, counter,
                   g_keep_stressing_flag, verify, max_ops, proc_state, buffer,
                   rc, reports, res, live, nomem, cancelled_at>>
    /\ UNCHANGED <<nfind, msg, ndraw>>

IncCounterNever ==
    /\ pc = "inc_counter"
    /\ pc' = "while"
    /\ UNCHANGED <<n, data, root, prev_root, i, j, counter,
                   g_keep_stressing_flag, verify, max_ops, proc_state, buffer,
                   rc, reports, res, live, nomem, cancelled_at>>
    /\ UNCHANGED <<nfind, msg, ndraw>>

\* line 130
IncCounter ==
    /\ pc = "inc_counter"
    /\ counter' = IF counter < CounterCap THEN counter + 1 ELSE counter
    /\ pc' = "while"
    /\ UNCHANGED <<n, data, root, prev_root, i, j, g_keep_stressing_flag,
                   verify, max_ops, proc_state, buffer, rc, reports, res, live,
                   nomem, cancelled_at>>
    /\ UNCHANGED <<nfind, msg, ndraw>>

\* the continuation predicate: the signal has not arrived and the run has no
\* limit on its cycles or fewer cycles than permitted have been counted
keep_stressing ==
    g_keep_stressing_flag /\ (max_ops = NoLimit \/ counter < max_ops)

\* line 131 with the predicate not tested: while (1)
LoopAgainAlways ==
    /\ pc = "while"
    /\ root' = Nil
    /\ i' = 0
    /\ pc' = "populate"
    /\ UNCHANGED <<n, data, prev_root, j, counter, g_keep_stressing_flag,
                   verify, max_ops, proc_state, buffer, rc, reports, res, live,
                   nomem, cancelled_at>>
    /\ UNCHANGED <<nfind, msg, ndraw>>

\* line 131 true: the next cycle starts with an empty tree (line 86)
LoopAgain ==
    /\ pc = "while"
    /\ keep_stressing
    /\ root' = Nil
    /\ i' = 0
    /\ pc' = "populate"
    /\ UNCHANGED <<n, data, prev_root, j, counter, g_keep_stressing_flag,
                   verify, max_ops, proc_state, buffer, rc, reports, res, live,
                   nomem, cancelled_at>>
    /\ UNCHANGED <<nfind, msg, ndraw>>

\* line 131 false
LoopExit ==
    /\ pc = "while"
    /\ ~keep_stressing
    /\ pc' = "abort"
    /\ UNCHANGED <<n, data, root, prev_root, i, j, counter,
                   g_keep_stressing_flag, verify, max_ops, proc_state, buffer,
                   rc, reports, res, live, nomem, cancelled_at>>
    /\ UNCHANGED <<nfind, msg, ndraw>>

\* lines 133-137
Abort ==
    /\ pc = "abort"
    /\ proc_state' = "deinit"
    /\ buffer' = IF buffer = "allocated" THEN "freed" ELSE "invalid free"
    /\ rc' = "EXIT_SUCCESS"
    /\ pc' = "done"
    /\ UNCHANGED <<n, data, root, prev_root, i, j, counter,
                   g_keep_stressing_flag, verify, max_ops, reports, res, live,
                   nomem, cancelled_at>>
    /\ UNCHANGED <<nfind, msg, ndraw>>

\* the cancellation signal arrives: keep_stressing_flag() is false from now on
Cancel ==
    /\ pc # "done"
    /\ g_keep_stressing_flag
    /\ g_keep_stressing_flag' = FALSE
    /\ cancelled_at' = <<pc, i>>
    /\ UNCHANGED <<pc, n, data, root, prev_root, i, j, counter, verify,
                   max_ops, proc_state, buffer, rc, reports, res, live,
                   nomem>>
    /\ UNCHANGED <<nfind, msg, ndraw>>

Next ==
    \/ CallocFail
    \/ CallocOk
    \/ PopulateStep
    \/ PopulateNoMem
    \/ PopulateExit
    \/ CleanupStep
    \/ CleanupExit
    \/ FindStep
    \/ FindExit
    \/ DeleteStep
    \/ DeleteExit
    \/ IncCounter
    \/ LoopAgain
    \/ LoopExit
    \/ Abort
    \/ Cancel

Spec == Init /\ [][Next]_vars

(***************************************************************************)
(* The run with no limit on the number of cycles: only the signal, or a    *)
(* failed allocation, ends it.  The process keeps being scheduled, so a    *)
(* step of the program that stays possible is eventually taken; nothing    *)
(* obliges the signal to arrive.                                            *)
(***************************************************************************)
InitLive ==
    /\ Setup
    /\ pc = "start"
    /\ n \in 1..LiveN
    /\ max_ops = NoLimit
    /\ data = <<>>
    /\ buffer = "none"

\* a step of the program itself
Step ==
    \/ CallocFail
    \/ CallocOk
    \/ PopulateStep
    \/ PopulateNoMem
    \/ PopulateExit
    \/ CleanupStep
    \/ CleanupExit
    \/ FindStep
    \/ FindExit
    \/ DeleteStep
    \/ DeleteExit
    \/ IncCounter
    \/ LoopAgain
    \/ LoopExit
    \/ Abort

NextLive ==
    \/ Step
    \/ Cancel

SpecLive == InitLive /\ [][NextLive]_vars /\ WF_vars(Step)

(***************************************************************************)
(* The same run over a tree that may misbehave, which is what the          *)
(* verification of lines 105-119 and 125-128 is there to detect: a find    *)
(* may return NULL or a node referencing another key, a delete may return  *)
(* NULL although it removed the node.                                      *)
(***************************************************************************)
FaultyFinds(k) ==
    {[op |-> "tfind", idx |-> k, found |-> FALSE, node |-> -1, val |-> 0]}
    \cup {[op |-> "tfind", idx |-> k, found |-> TRUE, node |-> m,
           val |-> data[m]] : m \in {x \in Refs(root) : data[x] # data[k]}}

\* lines 102-119 made fail-fast: a mismatch ends the run
FindStepFaultAbort ==
    /\ pc = "find"
    /\ FindCond
    /\ \E f \in FaultyFinds(i) : res' = f
    /\ prev_root' = root
    /\ reports' = reports \cup Kinds(FindReports(res', i))
    /\ msg' = FindReports(res', i)
    /\ nfind' = nfind + 1
    /\ i' = i + 1
    /\ pc' = IF FindReports(res', i) # {} THEN "abort" ELSE pc
    /\ UNCHANGED <<n, data, root, live, j, counter, g_keep_stressing_flag,
                   verify, max_ops, proc_state, buffer, rc, nomem, ndraw,
                   cancelled_at>>

\* lines 102-119, the find returning a wrong result
FindStepFault ==
    /\ pc = "find"
    /\ FindCond
    /\ \E f \in FaultyFinds(i) : res' = f
    /\ prev_root' = root
    /\ reports' = reports \cup Kinds(FindReports(res', i))
    /\ msg' = FindReports(res', i)
    /\ nfind' = nfind + 1
    /\ i' = i + 1
    /\ UNCHANGED <<pc, n, data, root, live, j, counter, g_keep_stressing_flag,
                   verify, max_ops, proc_state, buffer, rc, nomem, ndraw,
                   cancelled_at>>

\* lines 122-128, the delete removing the node and returning NULL
DeleteStepFault ==
    /\ pc = "delete"
    /\ DeleteCond
    /\ res' = [op |-> "tdelete", idx |-> i, found |-> FALSE, node |-> -1,
               val |-> 0]
    /\ prev_root' = root
    /\ root' = TreeDelete(root, i, data)
    /\ live' = live - 1
    /\ reports' = reports \cup Kinds(DeleteReports(res', i))
    /\ msg' = DeleteReports(res', i)
    /\ i' = i + 1
    /\ UNCHANGED <<pc, n, data, j, counter, g_keep_stressing_flag, verify,
                   max_ops, proc_state, buffer, rc, nomem, nfind, ndraw,
                   cancelled_at>>

NextFault ==
    \/ Next
    \/ FindStepFault
    \/ DeleteStepFault

SpecFault == Init /\ [][NextFault]_vars

(***************************************************************************)
(* The key generator alone, over the element counts of lines 28-30 and 66- *)
(* 76, at indices sampled from the whole range 0 .. n-1                    *)
(***************************************************************************)
SampleIndices ==
    {0, 1, MIN_TSEARCH_SIZE - 1, MIN_TSEARCH_SIZE, DEFAULT_TSEARCH_SIZE - 1,
     2 ^ (TSEARCH_SIZE_SHIFT - 1), MAX_TSEARCH_SIZE - 1}

InitKey ==
    /\ Setup
    /\ pc = "keygen"
    /\ n \in {MIN_TSEARCH_SIZE, DEFAULT_TSEARCH_SIZE, MAX_TSEARCH_SIZE}
    /\ max_ops = 0
    /\ data = [k \in {s \in SampleIndices : s < n} |-> 0]
    /\ buffer = "allocated"

\* the next sampled index after k, or n
NextSample(k) ==
    IF \E s \in DOMAIN data : s > k
    THEN CHOOSE s \in DOMAIN data : s > k /\ \A u \in DOMAIN data : u > k => s <= u
    ELSE n

\* line 90 at index i
KeyGenStep ==
    /\ pc = "keygen"
    /\ i < n
    /\ \E r \in RandVals, wide \in BOOLEAN :
          data' = [data EXCEPT ![i] = StressKey(r, i, wide)]
    /\ i' = NextSample(i)
    /\ UNCHANGED <<pc, n, root, prev_root, j, counter, g_keep_stressing_flag,
                   verify, max_ops, proc_state, buffer, rc, reports, res, live,
                   nomem, cancelled_at>>
    /\ ndraw' = IF ndraw < DrawCap THEN ndraw + 1 ELSE ndraw
    /\ UNCHANGED <<nfind, msg>>

NextKey == KeyGenStep

SpecKey == InitKey /\ [][NextKey]_vars

(***************************************************************************)
(* The tree operations alone.  In the free runs (pc = "tree") any element  *)
(* of a buffer of TreeN distinct keys, and one more element whose key      *)
(* equals another's, is inserted, looked up and deleted in any order.  In  *)
(* the end-to-end scenario (pc = "scenario") the keys 5, 3, 8, 1, 4, 7, 9, *)
(* 2 are inserted in that order, then looked up and deleted in any order.  *)
(***************************************************************************)
TreeN == 5

\* element k holds key k + 1; the last element holds the key of element 1
FreeData == [k \in 0..TreeN |-> IF k = TreeN THEN 2 ELSE k + 1]

ExampleKeys == <<5, 3, 8, 1, 4, 7, 9, 2>>
ExampleData == [k \in 0..(Len(ExampleKeys) - 1) |-> ExampleKeys[k + 1]]

\* the tree after inserting elements 0 .. m-1 of buffer d in that order
RECURSIVE TreeOfPrefix(_, _)
TreeOfPrefix(d, m) ==
    IF m = 0 THEN Nil ELSE TreeInsert(TreeOfPrefix(d, m - 1), m - 1, d)

ExampleTree == TreeOfPrefix(ExampleData, Len(ExampleKeys))

InitTree ==
    /\ Setup
    /\ ~verify
    /\ \/ pc = "tree" /\ data = FreeData
       \/ pc = "scenario" /\ data = ExampleData
    /\ n = Cardinality(DOMAIN data)
    /\ max_ops = 0
    /\ buffer = "allocated"

TreeFrame ==
    UNCHANGED <<pc, n, data, j, counter, g_keep_stressing_flag, verify,
                max_ops, proc_state, buffer, rc, reports, nomem, nfind, msg,
                ndraw, cancelled_at>>

TreeSearch ==
    /\ pc = "tree"
    /\ \E k \in DOMAIN data : tsearch_ok(k, data)
    /\ UNCHANGED i
    /\ TreeFrame

TreeSearchNoMem ==
    /\ pc = "tree"
    /\ \E k \in DOMAIN data : tsearch_nomem(k, data)
    /\ UNCHANGED i
    /\ TreeFrame

TreeFindKey ==
    /\ pc = "tree"
    /\ \E k \in DOMAIN data : tfind(k, data)
    /\ UNCHANGED i
    /\ TreeFrame

TreeDeleteKey ==
    /\ pc = "tree"
    /\ \E k \in DOMAIN data : tdelete(k, data)
    /\ UNCHANGED i
    /\ TreeFrame

ScenarioInsert ==
    /\ pc = "scenario"
    /\ i < n
    /\ tsearch_ok(i, data)
    /\ i' = i + 1
    /\ TreeFrame

ScenarioFind ==
    /\ pc = "scenario"
    /\ i = n
    /\ \E k \in DOMAIN data : tfind(k, data)
    /\ UNCHANGED i
    /\ TreeFrame

ScenarioDelete ==
    /\ pc = "scenario"
    /\ i = n
    /\ \E k \in DOMAIN data : tdelete(k, data)
    /\ UNCHANGED i
    /\ TreeFrame

NextTree ==
    \/ TreeSearch
    \/ TreeSearchNoMem
    \/ TreeFindKey
    \/ TreeDeleteKey
    \/ ScenarioInsert
    \/ ScenarioFind
    \/ ScenarioDelete

SpecTree == InitTree /\ [][NextTree]_vars

(***************************************************************************)
(* Properties                                                              *)
(***************************************************************************)
ReportKinds == reports

\* number of nodes above the node matching element k in tree t
RECURSIVE Depth(_, _, _)
Depth(t, k, d) ==
    IF t = Nil THEN 0
    ELSE LET c == stress_sort_cmp_int32(d[k], d[t.key])
         IN IF c = 0 THEN 0
            ELSE IF c < 0 THEN 1 + Depth(t.left, k, d)
            ELSE 1 + Depth(t.right, k, d)

\* C1  Round-trip: once the populate phase has inserted all n keys, every
\* lookup of the lookup phase returns a node, and the value the node
\* references equals key[i]; the lookup phase reports no mismatch.
C1_RoundTrip ==
    /\ res.op = "tfind" =>
          /\ res.found
          /\ res.val = data[res.idx]
          /\ data[res.node] = data[res.idx]
    /\ ReportKinds \cap {"find: could not be found",
                         "find: found X, expecting Y"} = {}

\* all the keys of a second cycle have been looked up with verification on,
\* the last one a negative key
C1_Witness ==
    /\ pc = "find"
    /\ verify
    /\ counter = 1
    /\ n > 1
    /\ i = n
    /\ res.op = "tfind"
    /\ res.found
    /\ res.val < 0

\* C2  Drain completeness: in a cycle whose populate phase completed every
\* delete of the delete phase returns a node and no delete mismatch is
\* reported; after the n-th delete the tree is empty, no node is left
\* allocated and a lookup of any key of the buffer finds nothing, also when
\* the lookup phase was cut short.
C2_DrainComplete ==
    /\ (res.op = "tdelete" /\ nomem = NoFail) => res.found
    /\ "delete: could not be found" \notin ReportKinds
    /\ ((pc = "delete" /\ i = n) \/ pc \in {"inc_counter", "while"}) =>
          /\ root = Nil
          /\ live = 0
          /\ \A k \in DOMAIN data : TreeFind(root, k, data) = Nil

\* the delete phase has ended in a cycle whose lookup phase was stopped by
\* the signal after one of several lookups
C2_Witness ==
    /\ pc = "inc_counter"
    /\ n > 2
    /\ cancelled_at = <<"find", 1>>
    /\ res.op = "tdelete"
    /\ res.idx = n - 1
    /\ root = Nil

\* C3 as claimed: with a continuation predicate that permits exactly K
\* cycles, no signal and no allocation failure, the run ends with the
\* counter equal to K, for every K >= 0.
C3_CounterIsK ==
    (pc = "done" /\ buffer = "freed" /\ nomem = NoFail
        /\ cancelled_at[1] = "never")
    => counter = max_ops

\* C3 as amended: the counter ends equal to K for every K >= 1 and equal to
\* 1 for K = 0 (the loop body runs before the predicate is first consulted);
\* the tree is empty before the first cycle and after the last one.
C3_CycleAccounting ==
    /\ (pc = "done" /\ buffer = "freed" /\ nomem = NoFail
           /\ cancelled_at[1] = "never")
       => counter = (IF max_ops >= 1 THEN max_ops ELSE 1)
    /\ (pc = "populate" /\ i = 0 /\ counter = 0) => (root = Nil /\ live = 0)
    /\ pc \in {"while", "abort", "done"} => (root = Nil /\ live = 0)
    /\ pc = "while" => counter >= 1
    /\ (cancelled_at[1] = "never" /\ nomem = NoFail) =>
          counter <= (IF max_ops >= 1 THEN max_ops ELSE 1)

\* a run permitted several cycles has ended, undisturbed
C3_Witness ==
    /\ pc = "done"
    /\ buffer = "freed"
    /\ nomem = NoFail
    /\ cancelled_at[1] = "never"
    /\ max_ops > 1
    /\ counter = max_ops

\* C4  When an insert of the populate phase cannot allocate a node, the run
\* ends and returns the resource-exhaustion outcome, not success.
C4_NoMemOutcome ==
    (pc = "done" /\ nomem # NoFail) => rc = "EXIT_NO_RESOURCE"

\* C5  When the insert of key[i] cannot allocate a node, exactly the keys
\* key[0..i-1] are deleted, after which the tree is empty and no node is
\* left allocated; no lookup or delete phase runs for that cycle, the
\* counter is not incremented for it and no further cycle starts.
C5_AbortCleanup ==
    nomem # NoFail =>
       /\ pc \in {"cleanup", "abort", "done"}
       /\ i = nomem.idx
       /\ counter = nomem.counter
       /\ res.op \in {"tsearch", "tdelete"}
       /\ res.op = "tdelete" => (res.found /\ res.idx = j - 1)
       /\ Refs(root) = j..(i - 1)
       /\ live = i - j
       /\ pc \in {"abort", "done"} => (j = i /\ root = Nil /\ live = 0)
       /\ ReportKinds \cap {"find: could not be found",
                            "find: found X, expecting Y",
                            "delete: could not be found"} = {}

\* the insert of the third key failed in the second cycle and the run ended
C5_Witness ==
    /\ pc = "done"
    /\ nomem.idx = 2
    /\ nomem.counter = 1
    /\ res.op = "tdelete"
    /\ res.idx = 1

\* C6  Key uniqueness: for element counts from 1024 to 2^22 and any values
\* of the random source, the keys generated so far are signed 32-bit
\* integers, pairwise distinct, and the low 22 bits of key[i] equal i.
C6_KeysDistinct ==
    pc = "keygen" =>
       \A a \in DOMAIN data :
          a < i =>
             /\ data[a] >= (0 - 2 ^ 30) - 2 ^ 30
             /\ data[a] <= (2 ^ 30 - 1) + 2 ^ 30
             /\ data[a] % (2 ^ TSEARCH_SIZE_SHIFT) = a
             /\ \A b \in DOMAIN data : (b < i /\ b # a) => data[a] # data[b]

\* the largest element count: all sampled keys are generated, the random
\* parts of keys 0 and 1 are equal and the last key is negative
C6_Witness ==
    /\ pc = "keygen"
    /\ n = MAX_TSEARCH_SIZE
    /\ i = n
    /\ data[0] = 0
    /\ data[1] = 1
    /\ data[MAX_TSEARCH_SIZE - 1] < 0

\* C7  Binary search tree invariant: in every state every node's left
\* subtree holds only smaller keys and its right subtree only greater keys,
\* and the keys in in-order are strictly increasing.
C7_BSTInvariant ==
    /\ IsBST(root, data)
    /\ StrictlyIncreasing(KeySeq(root, data))

\* a delete of the delete phase has left a tree of at least two nodes with a
\* negative and a positive key
C7_Witness ==
    /\ pc = "delete"
    /\ res.op = "tdelete"
    /\ Size(root) >= 2
    /\ \E a \in Refs(root), b \in Refs(root) : data[a] < 0 /\ data[b] > 0

\* C8  Idempotent insert: an insert of a key that compares equal to a key in
\* the tree returns the node already there, cannot fail for want of memory,
\* allocates no node and leaves the tree as it was; inserting any element
\* twice gives the tree of inserting it once.
C8_IdempotentInsert ==
    /\ (res.op = "tsearch" /\ TreeFind(prev_root, res.idx, data) # Nil) =>
          /\ res.found
          /\ res.node = TreeFind(prev_root, res.idx, data).key
          /\ root = prev_root
          /\ Size(root) = Size(prev_root)
          /\ live = Size(root)
    /\ \A k \in DOMAIN data :
          TreeInsert(TreeInsert(root, k, data), k, data)
             = TreeInsert(root, k, data)

\* an element was inserted whose key equals that of another element already
\* in a tree of at least three nodes
C8_Witness ==
    /\ pc = "tree"
    /\ res.op = "tsearch"
    /\ TreeFind(prev_root, res.idx, data) # Nil
    /\ res.node # res.idx
    /\ Size(root) >= 3

\* C9  Delete under all arities: a delete of a present key removes exactly
\* that key and that node, every other key stays reachable and the order is
\* kept; the place of a node with one child is taken by that child; the
\* place of a node with two children is taken by its in-order successor's
\* key, its left subtree is kept and the successor's right subtree is
\* reattached.  In the scenario, deleting 5 puts 7 in its place.
C9_DeleteArities ==
    (res.op = "tdelete" /\ res.found) =>
       LET node == TreeFind(prev_root, res.idx, data)
           place == Depth(prev_root, res.idx, data)
       IN /\ KeySet(root, data) = KeySet(prev_root, data) \ {data[res.idx]}
          /\ Refs(root) = Refs(prev_root) \ {node.key}
          /\ Size(root) = Size(prev_root) - 1
          /\ \A k \in Refs(root) : TreeFind(root, k, data).key = k
          /\ IsBST(root, data)
          /\ (node.left = Nil /\ node.right # Nil) =>
                /\ TreeFind(root, node.right.key, data) = node.right
                /\ Depth(root, node.right.key, data) = place
          /\ (node.left # Nil /\ node.right = Nil) =>
                /\ TreeFind(root, node.left.key, data) = node.left
                /\ Depth(root, node.left.key, data) = place
          /\ (node.left # Nil /\ node.right # Nil) =>
                LET s == TreeMin(node.right)
                    m == TreeFind(root, s.key, data)
                IN /\ Depth(root, s.key, data) = place
                   /\ m.key = s.key
                   /\ m.left = node.left
                   /\ Refs(m.right) = Refs(node.right) \ {s.key}
                   /\ Refs(s.right) \subseteq Refs(m.right)
                   /\ node.right.left = Nil => m.right = node.right.right
          /\ (pc = "scenario" /\ prev_root = ExampleTree /\ data[res.idx] = 5)
                => (data[root.key] = 7 /\ root.left = ExampleTree.left)

\* in the scenario, 5 was deleted from the tree of all eight keys
C9_Witness ==
    /\ pc = "scenario"
    /\ prev_root = ExampleTree
    /\ res.op = "tdelete"
    /\ data[res.idx] = 5
    /\ data[root.key] = 7

\* a node with two children was deleted whose successor was its right child
\* and had a right subtree of its own
C9_WitnessDirectChild ==
    /\ pc = "tree"
    /\ res.op = "tdelete"
    /\ res.found
    /\ LET node == TreeFind(prev_root, res.idx, data)
       IN /\ node.left # Nil
          /\ node.right # Nil
          /\ node.right.left = Nil
          /\ node.right.right # Nil

\* C10  The delete phase runs to completion whatever the signal does: a
\* delete step is never held back by the signal, the delete phase ends only
\* after all n deletes, and the tree is empty, with no node left allocated,
\* whenever the loop has been left.
C10_DeleteRunsToCompletion ==
    /\ (pc = "delete" /\ i < n) => ENABLED DeleteStep
    /\ pc \in {"inc_counter", "while"} =>
          (i = n /\ res.op = "tdelete" /\ res.idx = n - 1 /\ Size(root) = 0)
    /\ pc \in {"abort", "done"} => (Size(root) = 0 /\ live = 0)

\* the run has ended after a cycle in which the signal arrived during the
\* populate phase, so that no lookup was made
C10_Witness ==
    /\ pc = "done"
    /\ nomem = NoFail
    /\ n > 1
    /\ cancelled_at = <<"populate", 1>>
    /\ res.op = "tdelete"
    /\ res.idx = n - 1

MismatchKinds ==
    {"find: could not be found", "find: found X, expecting Y",
     "delete: could not be found"}

ExpectedCount == IF max_ops >= 1 THEN max_ops ELSE 1

\* C11  Verification mismatches are not fatal: after a lookup or a delete
\* that returned a wrong result the remaining lookups (unless the signal
\* arrives) and all the deletes of the cycle are still made, the counter is
\* incremented, the permitted cycles all run and the run returns success.
C11_MismatchNonFatal ==
    /\ pc = "delete" => (nfind = n \/ ~g_keep_stressing_flag)
    /\ pc \in {"inc_counter", "while"} => i = n
    /\ pc = "while" => counter >= 1
    /\ ReportKinds \cap MismatchKinds # {} =>
          /\ verify
          /\ pc \in {"find", "delete", "inc_counter", "while", "populate",
                     "cleanup", "abort", "done"}
          /\ (pc = "abort" /\ nomem = NoFail) => ~keep_stressing
    /\ (pc = "done" /\ buffer # "none" /\ nomem = NoFail) =>
          /\ rc = "EXIT_SUCCESS"
          /\ counter >= 1
          /\ cancelled_at[1] = "never" => counter = ExpectedCount

\* a run of two cycles has ended, undisturbed by the signal, with the three
\* kinds of mismatch reported
C11_Witness ==
    /\ pc = "done"
    /\ verify
    /\ MismatchKinds \subseteq ReportKinds
    /\ cancelled_at[1] = "never"
    /\ nomem = NoFail
    /\ counter = 2
    /\ rc = "EXIT_SUCCESS"

\* C12  When the key buffer cannot be allocated the run returns the
\* resource-exhaustion outcome before the loop starts: no cycle runs, no
\* tree operation is made, no random value is drawn, the counter is
\* unchanged and the run state is never set to running.
C12_CallocFailure ==
    /\ (pc = "done" /\ buffer = "none") =>
          /\ rc = "EXIT_NO_RESOURCE"
          /\ reports = {"calloc failed"}
          /\ proc_state = "init"
          /\ counter = 0
          /\ res = NoRes
          /\ root = Nil
          /\ live = 0
          /\ ndraw = 0
          /\ nfind = 0
    /\ rc = "EXIT_NO_RESOURCE" => (pc = "done" /\ buffer = "none")
    /\ buffer = "none" => pc \in {"start", "done"}

\* the allocation of the key buffer has failed and the run has returned
C12_Witness ==
    /\ pc = "done"
    /\ buffer = "none"
    /\ rc = "EXIT_NO_RESOURCE"
    /\ "calloc failed" \in reports

\* C13 as claimed: the counter never decreases and is incremented by one,
\* only for a cycle whose populate, lookup and delete phases each processed
\* all n elements.
C13_OnlyFullCycles ==
    [][/\ counter' >= counter
       /\ counter' # counter =>
             /\ counter' = counter + 1
             /\ i = n
             /\ nfind = n]_vars

\* C13 as amended: the counter never decreases and is incremented by one,
\* exactly once at the end of every cycle whose populate phase completed;
\* the populate and delete phases of that cycle processed all n elements,
\* the lookup phase processed all n unless the signal stopped it.
C13_CounterPerCycle ==
    [][/\ counter' >= counter
       /\ counter' # counter =>
             /\ counter' = counter + 1
             /\ pc = "inc_counter"
             /\ nomem = NoFail
             /\ i = n
             /\ root = Nil
             /\ nfind <= n
             /\ g_keep_stressing_flag => nfind = n
       /\ (pc = "inc_counter" /\ pc' # pc) => counter' = counter + 1
       /\ pc' = "inc_counter" => pc \in {"delete", "inc_counter"}]_vars

\* a cycle in which one lookup of several was made has been counted
C13_Witness ==
    /\ pc = "while"
    /\ counter = 1
    /\ n > 2
    /\ nfind = 1

\* C14  Resource lifecycle: once allocated, the key buffer is freed exactly
\* once on every way out of the run, after the tree has been emptied and
\* with no node left allocated; the run state is running exactly while the
\* buffer is allocated and finished once it is freed.
C14_ResourceLifecycle ==
    /\ buffer \in {"none", "allocated", "freed"}
    /\ buffer = "freed" =>
          (pc = "done" /\ root = Nil /\ live = 0 /\ proc_state = "deinit")
    /\ pc = "done" => buffer # "allocated"
    /\ (pc = "done" /\ rc = "EXIT_SUCCESS") => buffer = "freed"
    /\ proc_state = "run" <=> buffer = "allocated"
    /\ proc_state = "init" <=> buffer = "none"
    /\ proc_state = "deinit" <=> buffer = "freed"
    /\ (live > 0 \/ root # Nil) => buffer = "allocated"

\* the buffer has been freed on the way out after a failed insert of the
\* third key
C14_Witness ==
    /\ pc = "done"
    /\ buffer = "freed"
    /\ proc_state = "deinit"
    /\ nomem.idx = 2

\* C15 as claimed: the key buffer is filled once; its contents are the same
\* in every cycle and the random source is consumed n times per run.
C15_FilledOnce ==
    [][/\ (counter >= 1 /\ buffer = "allocated") => data' = data
       /\ ndraw' <= n]_vars

\* values drawn from the random source by the cycles counted so far and by
\* the cycle in progress
DrawsSoFar ==
    IF buffer = "none" THEN 0
    ELSE IF nomem # NoFail THEN nomem.counter * n + nomem.idx + 1
    ELSE IF pc = "populate" THEN counter * n + i
    ELSE IF pc \in {"find", "delete", "inc_counter"} THEN (counter + 1) * n
    ELSE counter * n

\* C15 as amended: the key buffer is allocated once and refilled in every
\* cycle: each iteration of the populate phase draws one random value and
\* writes key[i], so the random source is consumed n times per cycle; only
\* the low 22 bits of key[i], which equal i, are the same in every cycle.
C15_RefilledEachCycle ==
    /\ ndraw = DrawsSoFar
    /\ buffer = "allocated" => DOMAIN data = 0..(n - 1)
    /\ (pc \in {"find", "delete", "inc_counter", "while"} \/ counter >= 1) =>
          \A k \in DOMAIN data : data[k] % (2 ^ TSEARCH_SIZE_SHIFT) = k

\* the populate phase of a second cycle has drawn n more random values
C15_Witness ==
    /\ pc = "find"
    /\ counter = 1
    /\ n > 1
    /\ ndraw = 2 * n

\* C17  Lookup has no side effects: a find leaves the tree and the number
\* of allocated nodes as they were, so that throughout the lookup phase and
\* at the start of the delete phase the tree is the one the populate phase
\* built from the buffer, however many lookups were made.
C17_LookupNoSideEffect ==
    /\ res.op = "tfind" => (root = prev_root /\ live = Size(root))
    /\ pc = "find" => (root = TreeOfPrefix(data, n) /\ Size(root) = n)
    /\ (pc = "delete" /\ i = 0) =>
          (root = TreeOfPrefix(data, n) /\ Size(root) = n /\ live = n)

\* the delete phase starts after every key was looked up
C17_Witness ==
    /\ pc = "delete"
    /\ i = 0
    /\ n > 1
    /\ nfind = n
    /\ res.op = "tfind"
    /\ res.found

\* C19  No key is written while a node references it: in the populate phase
\* the tree holds exactly the elements 0 .. i-1 and no other node is
\* allocated, an element whose key changes is referenced by no node, and
\* after the populate phase the tree holds n nodes, one per element.
C19_NoWriteUnderTree ==
    /\ [](/\ pc = "populate" =>
               (Refs(root) = 0..(i - 1) /\ Size(root) = i /\ live = i)
          /\ pc = "find" =>
               (Refs(root) = 0..(n - 1) /\ Size(root) = n /\ live = n))
    /\ [][\A k \in (DOMAIN data) \cap (DOMAIN data') :
             data'[k] # data[k] =>
                /\ pc = "populate"
                /\ k = i
                /\ k \notin Refs(root)
                /\ live = Size(root)
                /\ Refs(root') \subseteq Refs(root) \cup {k}]_vars

\* in a second cycle a key has been written and inserted over a tree that
\* already held another element
C19_Witness ==
    /\ pc = "populate"
    /\ counter = 1
    /\ i = 2
    /\ Refs(root) = {0, 1}
    /\ res.op = "tsearch"

\* the messages lines 105-119 and 125-127 owe for the last tree call
ExpectedMsg ==
    IF res.op = "tfind" /\ verify /\ ~res.found
        THEN {<<"find: could not be found", res.idx>>}
    ELSE IF res.op = "tfind" /\ verify /\ res.val # data[res.idx]
        THEN {<<"find: found X, expecting Y", res.idx>>}
    ELSE IF res.op = "tdelete" /\ nomem = NoFail /\ verify /\ ~res.found
        THEN {<<"delete: could not be found", res.idx>>}
    ELSE {}

\* C18  A find or a delete of the loop reports exactly when verification is
\* on and its result is wrong: a find that returns nothing, a find whose
\* node holds another value, a delete that returns nothing; with
\* verification off, and for the deletes of the failed-insert cleanup,
\* nothing is reported.
C18_ReportIffVerifyMismatch ==
    /\ res.op \in {"tfind", "tdelete"} => msg = ExpectedMsg
    /\ Kinds(msg) \subseteq reports
    /\ ~verify => ReportKinds \cap MismatchKinds = {}
    /\ (res.op = "tfind" /\ res.found /\ res.val = data[res.idx]) => msg = {}
    /\ (res.op = "tdelete" /\ res.found) => msg = {}

\* with verification on, a find has returned a node holding another value
\* and the mismatch has been reported
C18_Witness ==
    /\ verify
    /\ res.op = "tfind"
    /\ res.found
    /\ res.val # data[res.idx]
    /\ msg = {<<"find: found X, expecting Y", res.idx>>}

\* with verification off, a find that returned nothing has gone unreported
C18_WitnessSilent ==
    /\ ~verify
    /\ res.op = "tfind"
    /\ ~res.found
    /\ msg = {}

\* the places where the signal is, and is not, consulted
SignalPoints ==
    /\ (pc = "populate" /\ i < n) => ENABLED PopulateStep
    /\ (pc = "cleanup" /\ j < i) => ENABLED CleanupStep
    /\ (pc = "delete" /\ i < n) => ENABLED DeleteStep
    /\ pc = "inc_counter" => ENABLED IncCounter
    /\ (pc = "find" /\ i < n) => (ENABLED FindStep <=> g_keep_stressing_flag)
    /\ pc = "while" => (ENABLED LoopAgain <=> keep_stressing)
    /\ pc = "while" => (ENABLED LoopExit <=> ~keep_stressing)

\* C16  Termination on cancellation: the continuation predicate is consulted
\* once after each completed cycle and the flag once per element at the top
\* of the lookup loop, and nowhere else; once the signal is raised the run
\* eventually ends with the buffer freed (if one was allocated) and an
\* outcome returned, the populate and delete phases of the cycle in progress
\* are finished first, and no cycle starts after the signal was seen at the
\* end of a cycle (the first cycle starts whatever the signal is).
C16_TerminatesOnCancel ==
    /\ []SignalPoints
    /\ [][(~g_keep_stressing_flag /\ pc' = "populate") =>
             pc \in {"start", "populate"}]_vars
    /\ [][(~g_keep_stressing_flag /\ pc = "populate" /\ pc' = "find") =>
             (i = n /\ Size(root) = n)]_vars
    /\ [][(~g_keep_stressing_flag /\ pc = "delete" /\ pc' # pc) =>
             (i = n /\ root = Nil /\ pc' = "inc_counter")]_vars
    /\ (~g_keep_stressing_flag) ~>
          /\ pc = "done"
          /\ \/ buffer = "freed" /\ rc = "EXIT_SUCCESS"
             \/ buffer = "none" /\ rc = "EXIT_NO_RESOURCE"

\* an unlimited run has ended after the signal arrived in the populate phase
\* of its second cycle, which was finished without a lookup and counted
C16_Witness ==
    /\ pc = "done"
    /\ max_ops = NoLimit
    /\ cancelled_at = <<"populate", 1>>
    /\ counter = 2
    /\ nfind = 0
    /\ n > 1
    /\ buffer = "freed"

====
